---- MODULE Spec2Model ----
(***************************************************************************)
(* The TAP_SCHEMA staging-and-swap workflow of repertoire                  *)
(* (src/src/repertoire/services/tap_schema.py, TAPSchemaService).          *)
(*                                                                         *)
(* The database is a map from namespace name to namespace content.  `db`   *)
(* is the committed state every other session sees; `tx` is the working    *)
(* copy of the transaction opened by `async with self._engine.begin()`,    *)
(* which is committed when the block exits normally and rolled back when   *)
(* an exception leaves it or the process dies.  The felis table manager    *)
(* and loader write through their own synchronous connection and commit    *)
(* each call by themselves.                                                *)
(***************************************************************************)
EXTENDS Integers, Sequences, FiniteSets, TLC

\* ------------------------------------------------------------------ bounds
MaxList == 2
NumStems == 2
MaxClock == 3
MaxRows == 3
MaxCalls == 3

\* ------------------------------------------------------- program constants
STAGING_SCHEMA == "tap_schema_staging"
PRODUCTION_SCHEMA == "tap_schema"
TEMP_SCHEMA == "tap_schema_temp"
Namespaces == {PRODUCTION_SCHEMA, STAGING_SCHEMA, TEMP_SCHEMA}

\* The registry's self-description row, excluded by the validator.
TAP_SCHEMA_ROW == "tap_schema"

\* self._table_postfix = "11"
MetadataTables == {"schemas11", "tables11", "columns11", "keys11", "key_columns11"}
VERSION_TABLE == "version11"

\* Schema document names, in lexicographic order.
StemOrder == <<"dp02_dc2", "dp1", "ivoa_obscore", "lsstcam">>
Stems == {StemOrder[n] : n \in 1..NumStems}
Versions == {"w.2025.43", "w.2025.44"}

\* The views of _create_views, in the dict's iteration order: <<view, table>>.
ViewsKeysFromKeyColumns ==
  << <<"schemas", "schemas11">>, <<"tables", "tables11">>,
     <<"columns", "columns11">>, <<"keys", "key_columns11">>,
     <<"key_columns", "key_columns11">> >>
Views ==
  << <<"schemas", "schemas11">>, <<"tables", "tables11">>,
     <<"columns", "columns11">>, <<"keys", "keys11">>,
     <<"key_columns", "key_columns11">> >>
ViewNames == {Views[n][1] : n \in 1..Len(Views)}

\* ------------------------------------------------------ namespace content
\* created_by names the session whose CREATE SCHEMA made the namespace; a
\* rename keeps it.  views holds <<view, table>>: the table a view selects from.
Absent ==
  [exists |-> FALSE, tables |-> {}, views |-> {}, registry |-> <<>>, ledger |-> {},
   created_by |-> ""]
EmptyNamespace ==
  [exists |-> TRUE, tables |-> {}, views |-> {}, registry |-> <<>>, ledger |-> {},
   created_by |-> "update"]
EmptyDatabase == [n \in Namespaces |-> Absent]

\* ------------------------------------------------------------- exceptions
NoError ==
  [kind |-> "none", schema_name |-> "", available |-> <<>>,
   expected |-> 0, found |-> 0, schema_version |-> ""]
Error(kind) == [NoError EXCEPT !.kind = kind]
TAPSchemaNotFoundError(schema_name, available) ==
  [NoError EXCEPT !.kind = "TAPSchemaNotFoundError",
                  !.schema_name = schema_name, !.available = available]
TAPSchemaValidationError(expected, found, schema_version) ==
  [NoError EXCEPT !.kind = "TAPSchemaValidationError",
                  !.expected = expected, !.found = found,
                  !.schema_version = schema_version]

VARIABLES
  db,              \* committed database: namespace name -> content
  tx,              \* <<>> or <<working copy>> of the open transaction
  pc,              \* the method _execute_update is in, or idle/done/failed/crashed
  k,               \* statements executed so far inside the current method
  schema_version,  \* self._schema_version
  schema_list,     \* self._schema_list
  yaml_dir,        \* extracted documents: file stem -> schema name the document declares
  prod_exists,     \* local of _swap_schemas
  error,           \* the exception update() raised to its caller
  at,              \* where the run stopped: [step, k]
  trace,           \* the methods _execute_update has called in this run, in order
  prod0,           \* production namespace when the run started
  clock,           \* database clock, read by func.now()
  other,           \* position of a second, concurrent run of the service
  fetch,           \* one call of TAPSchemaStorage.download_and_extract
  work,            \* the working directory of update()
  tree,            \* what a work_dir shared by calls of download_and_extract holds
  logged,          \* the warnings written to the logger
  cli,             \* one invocation of the update-tap-schema command
  hips             \* HipsListDependency: its cache and the world it reads

vars ==
  <<db, tx, pc, k, schema_version, schema_list, yaml_dir, prod_exists,
    error, at, trace, prod0, clock, other, fetch, work, tree, logged, cli, hips>>

service == <<schema_version, schema_list>>
history == <<prod0>>
rest == <<tree, logged, cli, hips>>
outside == <<other, fetch, rest>>
OtherIdle == [pc |-> "idle", k |-> 0]

\* --------------------------------------------------------- SQL statements
\* A statement either succeeds with a new working copy or raises.
Ok(d) == [ok |-> TRUE, db |-> d]
Raises(d) == [ok |-> FALSE, db |-> d]

Stmt(op, a, b) == [op |-> op, a |-> a, b |-> b]

\* DropSchema(name, cascade=True, if_exists=True)
DropSchemaKeeps(d, name) == Ok(d)
DropSchema(d, name) == Ok([d EXCEPT ![name] = Absent])

\* CreateSchema(name): fails when the namespace exists.
CreateSchema(d, name) ==
  IF d[name].exists THEN Raises(d) ELSE Ok([d EXCEPT ![name] = EmptyNamespace])

\* ALTER SCHEMA old RENAME TO new: the content moves with the name.
AlterSchemaRenameCopies(d, old, new) ==
  IF ~d[old].exists \/ d[new].exists THEN Raises(d)
  ELSE Ok([d EXCEPT ![new] = d[old]])
AlterSchemaRename(d, old, new) ==
  IF ~d[old].exists \/ d[new].exists THEN Raises(d)
  ELSE Ok([d EXCEPT ![new] = d[old], ![old] = Absent])

\* CREATE OR REPLACE VIEW tap_schema_staging.view AS SELECT * FROM tap_schema_staging.table
CreateOrReplaceView(d, view, table) ==
  IF ~d[STAGING_SCHEMA].exists \/ table \notin d[STAGING_SCHEMA].tables THEN Raises(d)
  ELSE Ok([d EXCEPT ![STAGING_SCHEMA].views =
             {v \in @ : v[1] # view} \cup {<<view, table>>}])

\* TAPSchemaVersion.metadata.create_all: CREATE TABLE IF NOT EXISTS.
CreateAll(d) ==
  IF ~d[STAGING_SCHEMA].exists THEN Raises(d)
  ELSE Ok([d EXCEPT ![STAGING_SCHEMA].tables = @ \cup {VERSION_TABLE}])

\* insert(...).values(version, loaded_at=now()).on_conflict_do_update(version)
UpsertDoNothing(d, version, now) ==
  IF ~d[STAGING_SCHEMA].exists \/ VERSION_TABLE \notin d[STAGING_SCHEMA].tables
  THEN Raises(d)
  ELSE Ok([d EXCEPT ![STAGING_SCHEMA].ledger =
             IF \E row \in @ : row.version = version THEN @
             ELSE @ \cup {[version |-> version, loaded_at |-> now]}])
Upsert(d, version, now) ==
  IF ~d[STAGING_SCHEMA].exists \/ VERSION_TABLE \notin d[STAGING_SCHEMA].tables
  THEN Raises(d)
  ELSE Ok([d EXCEPT ![STAGING_SCHEMA].ledger =
             {row \in @ : row.version # version}
               \cup {[version |-> version, loaded_at |-> now]}])

\* SELECT schema_name FROM information_schema.schemata WHERE schema_name = :a
SelectSchemata(d, name) == Ok(d)

\* SELECT * FROM <namespace>.<relation>: the rows of a metadata table are the
\* entries the loader wrote to it for each registered schema; a view returns
\* the rows of the table it was created on.
Rows(c, table) ==
  [n \in 1..Len(c.registry) |-> [table |-> table, schema_name |-> c.registry[n]]]
Select(c, relation) ==
  IF relation \in c.tables THEN Rows(c, relation)
  ELSE IF \E v \in c.views : v[1] = relation /\ v[2] \in c.tables
       THEN Rows(c, (CHOOSE v \in c.views : v[1] = relation)[2])
       ELSE << "UndefinedTable" >>

Execute(stmt, d, now) ==
  CASE stmt.op = "DropSchema" -> DropSchema(d, stmt.a)
    [] stmt.op = "CreateSchema" -> CreateSchema(d, stmt.a)
    [] stmt.op = "AlterSchemaRename" -> AlterSchemaRename(d, stmt.a, stmt.b)
    [] stmt.op = "CreateOrReplaceView" -> CreateOrReplaceView(d, stmt.a, stmt.b)
    [] stmt.op = "CreateAll" -> CreateAll(d)
    [] stmt.op = "Upsert" -> Upsert(d, stmt.a, now)
    [] stmt.op = "SelectSchemata" -> SelectSchemata(d, stmt.a)

\* ------------------------------------------------ transactions (engine.begin)
\* What other sessions see after a statement of an open transaction: nothing
\* of it until the block commits.
VisibleAutocommit(committed, working) == working
Visible(committed, working) == committed

\* What is left when an exception or the death of the process ends the block.
RollbackKeepsWork(committed, working) == working
Rollback(committed, working) == committed

Working == IF tx = <<>> THEN db ELSE tx[1]

\* ------------------------------------------------------ _execute_update
\* The calls of _execute_update, in the order of its body.
ExecuteUpdateRecordsAfterSwap ==
  << "_initialize_schemas", "_initialize_database", "download_and_extract",
     "_load_schemas", "_create_views", "_validate_staging", "_swap_schemas",
     "_record_version" >>
ExecuteUpdateSpecOrder ==
  << "_initialize_schemas", "download_and_extract", "_initialize_database",
     "_load_schemas", "_create_views", "_record_version",
     "_validate_staging", "_swap_schemas" >>
ExecuteUpdate ==
  << "_initialize_schemas", "_initialize_database", "download_and_extract",
     "_load_schemas", "_record_version", "_create_views",
     "_validate_staging", "_swap_schemas" >>
Steps == {ExecuteUpdate[n] : n \in 1..Len(ExecuteUpdate)}
Position(step) == CHOOSE n \in 1..Len(ExecuteUpdate) : ExecuteUpdate[n] = step
StepAfter(step) ==
  IF Position(step) = Len(ExecuteUpdate) THEN "done"
  ELSE ExecuteUpdate[Position(step) + 1]

\* Where control goes when `step` raises: no except clause, the run ends.
OnErrorContinues(step) == IF step = "_validate_staging" THEN StepAfter(step) ELSE "failed"
OnError(step) == "failed"

Enter(t, p) == IF p \in Steps THEN Append(t, p) ELSE t
NoAt == [step |-> "", k |-> 0]

\* The statements of each transactional method, in execution order.
InitializeSchemasCreateOnly ==
  << Stmt("CreateSchema", STAGING_SCHEMA, "") >>
InitializeSchemasDropsProduction ==
  << Stmt("DropSchema", PRODUCTION_SCHEMA, ""), Stmt("DropSchema", STAGING_SCHEMA, ""),
     Stmt("CreateSchema", STAGING_SCHEMA, "") >>
InitializeSchemasStatements ==
  << Stmt("DropSchema", STAGING_SCHEMA, ""), Stmt("CreateSchema", STAGING_SCHEMA, "") >>

RecordVersionStatements ==
  << Stmt("CreateAll", "", ""), Stmt("Upsert", schema_version, "") >>

CreateViewsStatements ==
  [n \in 1..Len(Views) |-> Stmt("CreateOrReplaceView", Views[n][1], Views[n][2])]

\* The renames of _swap_schemas, after the SELECT that sets prod_exists.
SwapRenamesNoRotation(exists) ==
  IF ~exists
  THEN << Stmt("AlterSchemaRename", STAGING_SCHEMA, PRODUCTION_SCHEMA) >>
  ELSE << Stmt("AlterSchemaRename", PRODUCTION_SCHEMA, TEMP_SCHEMA),
          Stmt("AlterSchemaRename", STAGING_SCHEMA, PRODUCTION_SCHEMA) >>
SwapRenames(exists) ==
  IF ~exists
  THEN << Stmt("AlterSchemaRename", STAGING_SCHEMA, PRODUCTION_SCHEMA) >>
  ELSE << Stmt("AlterSchemaRename", PRODUCTION_SCHEMA, TEMP_SCHEMA),
          Stmt("AlterSchemaRename", STAGING_SCHEMA, PRODUCTION_SCHEMA),
          Stmt("AlterSchemaRename", TEMP_SCHEMA, STAGING_SCHEMA) >>
SwapSchemasStatements ==
  << Stmt("SelectSchemata", PRODUCTION_SCHEMA, "") >> \o SwapRenames(prod_exists)

\* ------------------------------------------------------------------ inputs
RECURSIVE SeqsUpTo(_, _)
SeqsUpTo(S, n) ==
  IF n = 0 THEN {<<>>}
  ELSE LET shorter == SeqsUpTo(S, n - 1)
       IN shorter \cup {Append(q, x) : q \in {r \in shorter : Len(r) = n - 1}, x \in S}

\* Config requires a non-empty schemas list.
SchemaLists == {l \in SeqsUpTo(Stems, MaxList) : Len(l) >= 1}

\* A directory download_and_extract can return: it holds at least one document,
\* and each document declares the schema named after its file or the
\* registry's own name.
Directories ==
  UNION {{f \in [F -> Stems \cup {TAP_SCHEMA_ROW}] :
            \A stem \in F : f[stem] \in {stem, TAP_SCHEMA_ROW}} :
         F \in (SUBSET Stems) \ {{}}}
NoDirectory == [stem \in {} |-> stem]

\* sorted([f.stem for f in yaml_dir.glob("*.yaml")])
RECURSIVE SortedStems(_, _)
SortedStems(F, n) ==
  IF n > Len(StemOrder) THEN <<>>
  ELSE (IF StemOrder[n] \in F THEN <<StemOrder[n]>> ELSE <<>>) \o SortedStems(F, n + 1)
AvailableOmitsFirst(dir) == SortedStems(DOMAIN dir \ {StemOrder[1]}, 1)
Available(dir) == SortedStems(DOMAIN dir, 1)

\* SELECT COUNT(*) FROM tap_schema_staging.schemas11 WHERE schema_name != 'tap_schema'
CountAll(rows) == Len(rows)
RECURSIVE CountSchemas(_)
CountSchemas(rows) ==
  IF rows = <<>> THEN 0
  ELSE (IF Head(rows) # TAP_SCHEMA_ROW THEN 1 ELSE 0) + CountSchemas(Tail(rows))

\* ------------------------------------------------------- TAPSchemaStorage
\* source_url_template and source_url_template.format(version=schema_version).
Schemes == {"gs", "http", "https", "ftp", "s3"}
Template(scheme) == <<scheme, "://host/", "{version}", ".tar.gz">>
Format(template, version) ==
  [n \in DOMAIN template |-> IF template[n] = "{version}" THEN version ELSE template[n]]
\* urlparse(url).scheme
UrlScheme(url) == url[1]

\* schema_dir = work_dir / "schemas"; archive_path = schema_dir / "<version>.tar.gz"
SchemaDir == <<"work_dir", "schemas">>
ArchivePath(version) == SchemaDir \o <<version, ".tar.gz">>
YamlDir == SchemaDir \o <<"top_dir", "python", "lsst", "sdm", "schemas">>

NoStorageError ==
  [kind |-> "none", url |-> <<>>, schema_version |-> "", archive_path |-> <<>>,
   schema_dir |-> <<>>, scheme |-> ""]
StorageError(kind) == [NoStorageError EXCEPT !.kind = kind]
TAPSchemaDownloadError(url, version) ==
  [NoStorageError EXCEPT !.kind = "TAPSchemaDownloadError", !.url = url,
                         !.schema_version = version]
TAPSchemaExtractionError(archive_path) ==
  [NoStorageError EXCEPT !.kind = "TAPSchemaExtractionError",
                         !.archive_path = archive_path]
TAPSchemaDirectoryError(schema_dir) ==
  [NoStorageError EXCEPT !.kind = "TAPSchemaDirectoryError", !.schema_dir = schema_dir]
UnsupportedScheme(scheme) ==
  [NoStorageError EXCEPT !.kind = "ValueError", !.scheme = scheme]

\* What can go wrong while the archive is fetched: the exception the client
\* library or the write to archive_path raises.
GcsFailures == {"NotFound", "ServiceUnavailable", "OSError"}
HttpFailures == {"ConnectError", "HTTPStatusError", "OSError"}
\* The subclasses of httpx.HTTPError among them.
HTTPError == {"ConnectError", "HTTPStatusError"}

\* The if/elif/else on parsed.scheme.
BackendHttpDefault(scheme) == IF scheme = "gs" THEN "gcs" ELSE "http"
Backend(scheme) ==
  IF scheme = "gs" THEN "gcs"
  ELSE IF scheme \in {"http", "https"} THEN "http"
  ELSE "unsupported"

\* _download_from_gcs: `except Exception` wraps whatever was raised.
DownloadFromGcs(url, version, failure) ==
  IF failure = "none" THEN NoStorageError ELSE TAPSchemaDownloadError(url, version)

\* _download_from_http: `except httpx.HTTPError` wraps those; anything else
\* leaves the method as it was raised.
DownloadFromHttp(url, version, failure) ==
  IF failure = "none" THEN NoStorageError
  ELSE IF failure \in HTTPError THEN TAPSchemaDownloadError(url, version)
  ELSE StorageError(failure)

\* _extract_tarball: `except tarfile.TarError` wraps those; a truncated gzip
\* stream raises EOFError, which is not a TarError.
Archives == {"ok", "TarError", "EOFError"}
ExtractTarball(archive_path, archive) ==
  IF archive = "ok" THEN NoStorageError
  ELSE IF archive = "TarError" THEN TAPSchemaExtractionError(archive_path)
  ELSE StorageError(archive)

\* _locate_schema_directory on what the archive unpacked to.
Layouts == {"ok", "no_directories", "no_yaml_dir", "no_yaml_files"}
LocateSchemaDirectory(layout) ==
  IF layout = "no_directories" THEN TAPSchemaDirectoryError(<<>>)
  ELSE IF layout \in {"no_yaml_dir", "no_yaml_files"} THEN TAPSchemaDirectoryError(YamlDir)
  ELSE NoStorageError

\* One call of download_and_extract: its inputs, the fetches it made of the
\* archive, and how it ended.
NoFetch ==
  [scheme |-> "", failure |-> "none", archive |-> "ok", layout |-> "ok",
   requests |-> <<>>, error |-> NoStorageError, state |-> "none"]
FailuresFor(scheme) ==
  {"none"} \cup (IF scheme = "gs" THEN GcsFailures
                 ELSE IF scheme \in {"http", "https"} THEN HttpFailures
                 ELSE {})
StorageInputs ==
  {[NoFetch EXCEPT !.scheme = scheme, !.failure = failure, !.archive = archive,
                   !.layout = layout, !.state = "called"] :
     scheme \in Schemes, failure \in GcsFailures \cup HttpFailures \cup {"none"},
     archive \in Archives, layout \in Layouts}
StorageCalls == {f \in StorageInputs : f.failure \in FailuresFor(f.scheme)}

\* TAPSchemaStorage.download_and_extract
StorageDownloadAndExtract(f, version) ==
  LET url == Format(Template(f.scheme), version)
      backend == Backend(UrlScheme(url))
      download ==
        CASE backend = "gcs" -> DownloadFromGcs(url, version, f.failure)
          [] backend = "http" -> DownloadFromHttp(url, version, f.failure)
          [] OTHER -> UnsupportedScheme(UrlScheme(url))
      extract == ExtractTarball(ArchivePath(version), f.archive)
      locate == LocateSchemaDirectory(f.layout)
      raised ==
        IF download # NoStorageError THEN download
        ELSE IF extract # NoStorageError THEN extract
        ELSE locate
  IN [f EXCEPT !.requests = IF backend = "unsupported" THEN <<>> ELSE <<backend>>,
               !.error = raised,
               !.state = IF raised = NoStorageError THEN "returned" ELSE "raised"]

\* Every exception download_and_extract can leave with.
StorageErrorKinds ==
  {StorageDownloadAndExtract(f, v).error.kind : f \in StorageCalls, v \in Versions}
    \ {"none"}

\* ------------------------------------------------------- working directory
\* update(work_dir): with work_dir None the run works in the directory of a
\* `with tempfile.TemporaryDirectory()` block, otherwise in the caller's.
NoWork == [work_dir |-> "none", tmpdir |-> "none", given |-> "none"]
TemporaryDirectory == [work_dir |-> "tmpdir", tmpdir |-> "exists", given |-> "none"]
GivenDirectory == [work_dir |-> "given", tmpdir |-> "none", given |-> "exists"]

\* The exit of the `with` block, on return and on exception.
CleanupNever(w) == w
Cleanup(w) ==
  IF w.work_dir = "tmpdir" THEN [w EXCEPT !.tmpdir = "removed"] ELSE w
\* _execute_update goes on to p: update() is left when p is not one of its calls.
Leave(w, p) == IF p \in Steps THEN w ELSE Cleanup(w)

\* ---------------------------------------------------- other components' idle state
\* What is under work_dir/schemas: the documents of each top directory, each
\* with the number of the call that wrote it; the last call's archive and the
\* documents of the directory it returned.
NoTree ==
  [dirs |-> [t \in {} |-> {}], returned |-> {}, calls |-> 0,
   version |-> "", documents |-> {}]
\* One invocation of update-tap-schema: its options and environment, the
\* engine it made, and how it exited.
NoMessage == [prefix |-> "", text |-> "", error |-> NoError]
NoCli ==
  [state |-> "none", app |-> "", server_version |-> "", global_version |-> "",
   database_url |-> FALSE, password_env |-> FALSE, engine |-> "none",
   exit_code |-> -1, message |-> NoMessage]
\* HipsListDependency and what it reads: _cache, the Config passed to the
\* calls, the revision of the properties files the surveys serve, and the calls
\* of get_list that are in progress or have ended.
NoCall ==
  [state |-> "none", dataset |-> "", entries |-> <<>>, text |-> <<>>,
   requests |-> 0, error |-> ""]
NoHips ==
  [cache |-> [d \in {} |-> <<>>], config |-> "", revision |-> 0,
   calls |-> <<NoCall, NoCall>>]

\* ------------------------------------------------------------------- Init
Init ==
  /\ db = EmptyDatabase
  /\ tx = <<>>
  /\ pc = "idle"
  /\ k = 0
  /\ schema_version \in Versions
  /\ schema_list \in SchemaLists
  /\ yaml_dir = NoDirectory
  /\ prod_exists = FALSE
  /\ error = NoError
  /\ at = NoAt
  /\ trace = <<>>
  /\ prod0 = Absent
  /\ clock = 0
  /\ other = OtherIdle
  /\ fetch = NoFetch
  /\ work = NoWork
  /\ tree = NoTree
  /\ logged = <<>>
  /\ cli = NoCli
  /\ hips = NoHips

\* ---------------------------------------------------------------- actions
\* The method at pc returns: _execute_update goes on to its next call.
Advance ==
  /\ pc' = StepAfter(pc)
  /\ trace' = Enter(trace, StepAfter(pc))
  /\ k' = 0
  /\ work' = Leave(work, StepAfter(pc))
  /\ UNCHANGED <<error, at>>

\* The method at pc raises e: an open transaction is rolled back.
Abort(e) ==
  /\ error' = e
  /\ at' = [step |-> pc, k |-> k]
  /\ pc' = OnError(pc)
  /\ trace' = Enter(trace, OnError(pc))
  /\ k' = 0
  /\ work' = Leave(work, OnError(pc))
  /\ tx' = <<>>
  /\ db' = Rollback(db, Working)

\* One step of a method whose body is `async with self._engine.begin()`
\* around stmts: the next statement, or the commit at the end of the block.
Transaction(stmts) ==
  IF k < Len(stmts)
  THEN LET r == Execute(stmts[k + 1], Working, clock)
       IN IF r.ok
          THEN /\ tx' = <<r.db>>
               /\ db' = Visible(db, r.db)
               /\ k' = k + 1
               /\ UNCHANGED <<pc, trace, error, at, work>>
          ELSE Abort(Error("ProgrammingError"))
  ELSE /\ db' = Working
       /\ tx' = <<>>
       /\ Advance

\* TAPSchemaService.update: a new run on this database, for the version now
\* configured and the deployment's schema list.
UpdateCall(work_dir) ==
  /\ pc \in {"idle", "done", "failed", "crashed"}
  /\ clock < MaxClock
  /\ work' = work_dir
  /\ schema_version' \in Versions
  /\ schema_list' = schema_list
  /\ pc' = ExecuteUpdate[1]
  /\ trace' = <<ExecuteUpdate[1]>>
  /\ k' = 0
  /\ yaml_dir' = NoDirectory
  /\ prod_exists' = FALSE
  /\ error' = NoError
  /\ at' = NoAt
  /\ prod0' = db[PRODUCTION_SCHEMA]
  /\ UNCHANGED <<db, tx, clock, outside>>
Update == UpdateCall(TemporaryDirectory)

InitializeSchemas ==
  /\ pc = "_initialize_schemas"
  /\ Transaction(InitializeSchemasStatements)
  /\ UNCHANGED <<service, yaml_dir, prod_exists, history, clock, outside>>

\* mgr.initialize_database(db_ctx), then MetadataInserter.insert_metadata().
InitializeDatabase ==
  /\ pc = "_initialize_database"
  /\ IF ~db[STAGING_SCHEMA].exists
     THEN Abort(Error("ProgrammingError"))
     ELSE /\ tx' = tx
          /\ IF k = 0
             THEN /\ db' = [db EXCEPT ![STAGING_SCHEMA].tables = @ \cup MetadataTables]
                  /\ k' = 1
                  /\ UNCHANGED <<pc, trace, error, at, work>>
             ELSE /\ db' = [db EXCEPT ![STAGING_SCHEMA].registry = Append(@, TAP_SCHEMA_ROW)]
                  /\ Advance
  /\ UNCHANGED <<service, yaml_dir, prod_exists, history, clock, outside>>

\* self._storage.download_and_extract returns the document directory.
DownloadAndExtract ==
  /\ pc = "download_and_extract"
  /\ yaml_dir' \in Directories
  /\ Advance
  /\ UNCHANGED <<db, tx, service, prod_exists, history, clock, outside>>

DownloadFails ==
  /\ pc = "download_and_extract"
  /\ \E kind \in StorageErrorKinds : Abort(Error(kind))
  /\ UNCHANGED <<service, yaml_dir, prod_exists, history, clock, outside>>

\* One iteration of the loop of _load_schemas; k schemas are loaded so far.
LoadSchemas ==
  /\ pc = "_load_schemas"
  /\ IF k = Len(schema_list)
     THEN /\ Advance
          /\ UNCHANGED <<db, tx>>
     ELSE LET schema_name == schema_list[k + 1]
          IN IF schema_name \notin DOMAIN yaml_dir
             THEN Abort(TAPSchemaNotFoundError(schema_name, Available(yaml_dir)))
             ELSE /\ db' = [db EXCEPT ![STAGING_SCHEMA].registry =
                                        Append(@, yaml_dir[schema_name])]
                  /\ k' = k + 1
                  /\ UNCHANGED <<tx, pc, trace, error, at, work>>
  /\ UNCHANGED <<service, yaml_dir, prod_exists, history, clock, outside>>

RecordVersion ==
  /\ pc = "_record_version"
  /\ clock' = IF k = 0 THEN clock + 1 ELSE clock
  /\ Transaction(RecordVersionStatements)
  /\ UNCHANGED <<service, yaml_dir, prod_exists, history, outside>>

CreateViews ==
  /\ pc = "_create_views"
  /\ Transaction(CreateViewsStatements)
  /\ UNCHANGED <<service, yaml_dir, prod_exists, history, clock, outside>>

\* The whole read-only transaction of _validate_staging.
ValidateStaging ==
  /\ pc = "_validate_staging"
  /\ IF ~db[STAGING_SCHEMA].exists \/ "schemas11" \notin db[STAGING_SCHEMA].tables
     THEN Abort(Error("ProgrammingError"))
     ELSE LET count == CountSchemas(db[STAGING_SCHEMA].registry)
          IN IF count # Len(schema_list)
             THEN Abort(TAPSchemaValidationError(Len(schema_list), count, schema_version))
             ELSE /\ Advance
                  /\ UNCHANGED <<db, tx>>
  /\ UNCHANGED <<service, yaml_dir, prod_exists, history, clock, outside>>

SwapSchemas ==
  /\ pc = "_swap_schemas"
  /\ prod_exists' = IF k = 0 THEN Working[PRODUCTION_SCHEMA].exists ELSE prod_exists
  /\ Transaction(SwapSchemasStatements)
  /\ UNCHANGED <<service, yaml_dir, history, clock, outside>>

\* A statement or library call of the current method fails for a reason
\* outside the model: connection lost, felis rejects a document, ...
FaultKind(step) ==
  IF step \in {"_initialize_database", "_load_schemas"} THEN "FelisError"
  ELSE "OperationalError"
Fault ==
  /\ pc \in Steps \ {"download_and_extract"}
  /\ Abort(Error(FaultKind(pc)))
  /\ UNCHANGED <<service, yaml_dir, prod_exists, history, clock, outside>>

\* The process is killed: an open transaction is rolled back by the server.
Crash ==
  /\ pc \in Steps
  /\ pc' = "crashed"
  /\ at' = [step |-> pc, k |-> k]
  /\ k' = 0
  /\ tx' = <<>>
  /\ db' = Rollback(db, Working)
  /\ UNCHANGED <<service, yaml_dir, prod_exists, history, clock, outside, error, trace, work>>

Next ==
  \/ Update
  \/ InitializeSchemas
  \/ InitializeDatabase
  \/ DownloadAndExtract
  \/ DownloadFails
  \/ LoadSchemas
  \/ RecordVersion
  \/ CreateViews
  \/ ValidateStaging
  \/ SwapSchemas
  \/ Fault
  \/ Crash

Spec == Init /\ [][Next]_vars

\* Runs whose caller may also pass its own work_dir to update().
UpdateWithWorkDir == UpdateCall(GivenDirectory)

NextWorkDir ==
  \/ Next
  \/ UpdateWithWorkDir

SpecWorkDir == Init /\ [][NextWorkDir]_vars

\* ------------------------------------------------ update-tap-schema command
\* The command runs TapSchemaManager.update, whose calls are those of
\* ExecuteUpdate: _initialize_schemas, _initialize_table_manager,
\* download_schemas, _load_schemas, _record_version, _create_views,
\* _validate_staging, _swap_schemas.

\* config.tap_servers and the values --app can take.
TapServers == {"tap"}
Apps == {"tap", "ssotap"}

\* Config.get_tap_server_schema_version
Resolved(version) == [ok |-> TRUE, version |-> version, text |-> ""]
Unresolved(text) == [ok |-> FALSE, version |-> "", text |-> text]
GetTapServerSchemaVersionGlobalFirst(app, server_version, global_version) ==
  IF app \notin TapServers THEN Unresolved("Unknown TAP server")
  ELSE LET version == IF global_version # "" THEN global_version ELSE server_version
       IN IF version = "" THEN Unresolved("No schema version configured")
          ELSE Resolved(version)
GetTapServerSchemaVersion(app, server_version, global_version) ==
  IF app \notin TapServers THEN Unresolved("Unknown TAP server")
  ELSE LET version == IF server_version # "" THEN server_version ELSE global_version
       IN IF version = "" THEN Unresolved("No schema version configured")
          ELSE Resolved(version)

\* raise click.ClickException(...): click prints the message and exits with 1;
\* a command that returns exits with 0.
ExitCodeAlwaysZero(p) == 0
ExitCode(p) == IF p = "done" THEN 0 ELSE 1
ClickException(c, prefix, text, e) ==
  [c EXCEPT !.state = "exited", !.exit_code = ExitCode("failed"),
            !.message = [prefix |-> prefix, text |-> text, error |-> e]]

CliInvocations ==
  {[NoCli EXCEPT !.state = "invoked", !.app = app, !.server_version = sv,
                 !.global_version = gv, !.database_url = url, !.password_env = pw] :
     app \in Apps, sv \in Versions \cup {""}, gv \in Versions \cup {""},
     url \in BOOLEAN, pw \in BOOLEAN}

\* The command up to `await manager.update()`: version, password, engine.
CliStart ==
  /\ cli.state = "invoked"
  /\ LET r == GetTapServerSchemaVersion(cli.app, cli.server_version, cli.global_version)
     IN IF ~r.ok
        THEN /\ cli' = ClickException(cli, "", r.text, NoError)
             /\ UNCHANGED <<pc, trace, schema_version, prod0>>
        ELSE IF ~cli.database_url /\ ~cli.password_env
        THEN /\ cli' = ClickException(cli, "", "Database password not found", NoError)
             /\ UNCHANGED <<pc, trace, schema_version, prod0>>
        ELSE /\ cli' = [cli EXCEPT !.state = "running", !.engine = "created"]
             /\ schema_version' = r.version
             /\ pc' = ExecuteUpdate[1]
             /\ trace' = <<ExecuteUpdate[1]>>
             /\ prod0' = db[PRODUCTION_SCHEMA]
  /\ UNCHANGED <<db, tx, k, schema_list, yaml_dir, prod_exists, error, at, clock,
                 other, fetch, work, tree, logged, hips>>

\* download_schemas raises RuntimeError or ValueError.
ManagerDownloadFails ==
  /\ pc = "download_and_extract"
  /\ \E kind \in {"RuntimeError", "ValueError"} : Abort(Error(kind))
  /\ UNCHANGED <<service, yaml_dir, prod_exists, history, clock, outside>>

\* One iteration of the loop of TapSchemaManager._load_schemas.
ManagerLoadSchemas ==
  /\ pc = "_load_schemas"
  /\ IF k = Len(schema_list)
     THEN /\ Advance
          /\ UNCHANGED <<db, tx>>
     ELSE LET schema_name == schema_list[k + 1]
          IN IF schema_name \notin DOMAIN yaml_dir
             THEN Abort([Error("RuntimeError") EXCEPT !.schema_name = schema_name,
                                                      !.available = Available(yaml_dir)])
             ELSE /\ db' = [db EXCEPT ![STAGING_SCHEMA].registry =
                                        Append(@, yaml_dir[schema_name])]
                  /\ k' = k + 1
                  /\ UNCHANGED <<tx, pc, trace, error, at, work>>
  /\ UNCHANGED <<service, yaml_dir, prod_exists, history, clock, outside>>

\* TapSchemaManager._create_views has a sixth view, on the ledger.
ManagerViews == Views \o << <<"version", VERSION_TABLE>> >>
ManagerCreateViewsStatements ==
  [n \in 1..Len(ManagerViews) |->
     Stmt("CreateOrReplaceView", ManagerViews[n][1], ManagerViews[n][2])]
ManagerCreateViews ==
  /\ pc = "_create_views"
  /\ Transaction(ManagerCreateViewsStatements)
  /\ UNCHANGED <<service, yaml_dir, prod_exists, history, clock, outside>>

\* set(...) of a list of names.
Range(q) == {q[n] : n \in DOMAIN q}
\* SELECT COUNT(*) FROM tap_schema_staging.schemas11
ManagerCount(rows) == Len(rows)
SchemasNotFound(missing) ==
  [level |-> "warning", event |-> "Some schemas not found in TAP_SCHEMA",
   missing |-> missing]

\* The whole transaction of TapSchemaManager._validate_staging.
ManagerValidateStaging ==
  /\ pc = "_validate_staging"
  /\ IF ~db[STAGING_SCHEMA].exists \/ "schemas11" \notin db[STAGING_SCHEMA].tables
     THEN /\ Abort(Error("ProgrammingError"))
          /\ logged' = logged
     ELSE LET count == ManagerCount(db[STAGING_SCHEMA].registry)
              loaded_schemas == Range(db[STAGING_SCHEMA].registry)
              missing == Range(schema_list) \ loaded_schemas
          IN IF count = 0
             THEN /\ Abort(Error("RuntimeError"))
                  /\ logged' = logged
             ELSE /\ logged' = IF missing # {}
                               THEN Append(logged, SchemasNotFound(missing))
                               ELSE logged
                  /\ Advance
                  /\ UNCHANGED <<db, tx>>
  /\ UNCHANGED <<service, yaml_dir, prod_exists, history, clock,
                 other, fetch, tree, cli, hips>>

\* The end of the command: return, or `except Exception`, then `finally`.
CliExit ==
  /\ cli.state = "running"
  /\ pc \in {"done", "failed"}
  /\ cli' = IF pc = "done"
            THEN [cli EXCEPT !.state = "exited", !.exit_code = ExitCode(pc),
                             !.engine = "disposed"]
            ELSE ClickException([cli EXCEPT !.engine = "disposed"],
                                "Update failed: ", "", error)
  /\ UNCHANGED <<db, tx, pc, k, service, yaml_dir, prod_exists, error, at, trace,
                 history, clock, other, fetch, work, tree, logged, hips>>

InitCli ==
  /\ db = EmptyDatabase
  /\ tx = <<>>
  /\ pc = "idle"
  /\ k = 0
  /\ schema_version = ""
  /\ schema_list \in SchemaLists
  /\ yaml_dir = NoDirectory
  /\ prod_exists = FALSE
  /\ error = NoError
  /\ at = NoAt
  /\ trace = <<>>
  /\ prod0 = Absent
  /\ clock = 0
  /\ other = OtherIdle
  /\ fetch = NoFetch
  /\ work = NoWork
  /\ tree = NoTree
  /\ logged = <<>>
  /\ cli \in CliInvocations
  /\ hips = NoHips

NextCli ==
  \/ CliStart
  \/ InitializeSchemas
  \/ InitializeDatabase
  \/ DownloadAndExtract
  \/ ManagerDownloadFails
  \/ ManagerLoadSchemas
  \/ RecordVersion
  \/ ManagerCreateViews
  \/ ManagerValidateStaging
  \/ SwapSchemas
  \/ Fault
  \/ CliExit

SpecCli == InitCli /\ [][NextCli]_vars

\* _validate_staging called on its own on a staging registry with any rows,
\* as the unit tests of the service do.
RegistryRows == SeqsUpTo(Stems \cup {TAP_SCHEMA_ROW}, MaxRows)
InitValidate ==
  /\ \E rows \in RegistryRows :
       db = [EmptyDatabase EXCEPT ![STAGING_SCHEMA] =
               [EmptyNamespace EXCEPT !.tables = MetadataTables, !.registry = rows]]
  /\ tx = <<>>
  /\ pc = "_validate_staging"
  /\ k = 0
  /\ schema_version \in Versions
  /\ schema_list \in SchemaLists
  /\ yaml_dir = NoDirectory
  /\ prod_exists = FALSE
  /\ error = NoError
  /\ at = NoAt
  /\ trace = <<"_validate_staging">>
  /\ prod0 = Absent
  /\ clock = 0
  /\ other = OtherIdle
  /\ fetch = NoFetch
  /\ work = NoWork
  /\ tree = NoTree
  /\ logged = <<>>
  /\ cli = NoCli
  /\ hips = NoHips
NextValidate == ValidateStaging
SpecValidate == InitValidate /\ [][NextValidate]_vars

\* download_and_extract called on its own, as the tests of the storage do,
\* for every URL scheme and every way the fetch, the archive and its content
\* can be.
InitStorage ==
  /\ db = EmptyDatabase
  /\ tx = <<>>
  /\ pc = "download_and_extract"
  /\ k = 0
  /\ schema_version \in Versions
  /\ schema_list = <<StemOrder[1]>>
  /\ yaml_dir = NoDirectory
  /\ prod_exists = FALSE
  /\ error = NoError
  /\ at = NoAt
  /\ trace = <<"download_and_extract">>
  /\ prod0 = Absent
  /\ clock = 0
  /\ other = OtherIdle
  /\ fetch \in StorageCalls
  /\ work = NoWork
  /\ tree = NoTree
  /\ logged = <<>>
  /\ cli = NoCli
  /\ hips = NoHips
CallDownloadAndExtract ==
  /\ fetch.state = "called"
  /\ fetch' = StorageDownloadAndExtract(fetch, schema_version)
  /\ UNCHANGED <<db, tx, pc, k, service, yaml_dir, prod_exists, error, at, trace,
                 history, clock, other, work, rest>>
NextStorage == CallDownloadAndExtract
SpecStorage == InitStorage /\ [][NextStorage]_vars

\* Calls of download_and_extract that share one work_dir. The archive of a
\* version unpacks to one top directory named after the version, holding the
\* archive's documents.
ArchiveDocuments == SUBSET Stems \ {{}}

\* tar.extractall(path=schema_dir): the members are written under schema_dir,
\* over files of the same name; what else is there stays.
ExtractAll(dirs, version, documents, call) ==
  [t \in DOMAIN dirs \cup {version} |->
     IF t = version
     THEN {f \in (IF version \in DOMAIN dirs THEN dirs[version] ELSE {}) :
             f.stem \notin documents}
            \cup {[stem |-> stem, call |-> call] : stem \in documents}
     ELSE dirs[t]]

\* extracted_dirs = [d for d in schema_dir.iterdir() if d.is_dir()]; iterdir
\* yields in arbitrary order, so extracted_dirs[0] is any of them.
ExtractedDirs(dirs) == DOMAIN dirs

InitSharedWorkDir ==
  /\ db = EmptyDatabase
  /\ tx = <<>>
  /\ pc = "download_and_extract"
  /\ k = 0
  /\ schema_version = ""
  /\ schema_list = <<StemOrder[1]>>
  /\ yaml_dir = NoDirectory
  /\ prod_exists = FALSE
  /\ error = NoError
  /\ at = NoAt
  /\ trace = <<"download_and_extract">>
  /\ prod0 = Absent
  /\ clock = 0
  /\ other = OtherIdle
  /\ fetch = NoFetch
  /\ work = GivenDirectory
  /\ tree = NoTree
  /\ logged = <<>>
  /\ cli = NoCli
  /\ hips = NoHips

\* One call whose download and extraction succeed: mkdir(exist_ok=True),
\* extraction, then the location of the document directory.
CallOnSharedWorkDir ==
  /\ tree.calls < MaxCalls
  /\ \E version \in Versions, documents \in ArchiveDocuments :
       LET call == tree.calls + 1
           dirs == ExtractAll(tree.dirs, version, documents, call)
       IN \E top_dir \in ExtractedDirs(dirs) :
            tree' = [dirs |-> dirs, returned |-> dirs[top_dir], calls |-> call,
                     version |-> version, documents |-> documents]
  /\ UNCHANGED <<db, tx, pc, k, service, yaml_dir, prod_exists, error, at, trace,
                 history, clock, other, fetch, work, logged, cli, hips>>

NextSharedWorkDir == CallOnSharedWorkDir
SpecSharedWorkDir == InitSharedWorkDir /\ [][NextSharedWorkDir]_vars

\* ------------------------------------------------------ HipsListDependency
\* Dataset labels a request can carry, and the configurations a call can be
\* given: config.token, config.hips.datasets and config.available_datasets.
Datasets == {"dp02", "dp1"}
Configs ==
  [ full |-> [token |-> TRUE, datasets |-> {"dp02", "dp1"}, available |-> {"dp02", "dp1"}],
    dp02 |-> [token |-> TRUE, datasets |-> {"dp02"}, available |-> {"dp02", "dp1"}],
    unavailable |-> [token |-> TRUE, datasets |-> {"dp02", "dp1"}, available |-> {"dp1"}],
    anonymous |-> [token |-> FALSE, datasets |-> {"dp02", "dp1"}, available |-> {"dp02", "dp1"}] ]
\* config.hips.datasets[dataset].paths
Paths == <<"images/color_gri", "images/band_u">>
Revisions == {1, 2}
Callers == {1, 2}

\* _get_hips_list_entry: the properties file served now, with hips_service_url.
Entry(dataset, path, revision) ==
  [hips_service_url |-> <<dataset, path>>, properties |-> revision]

\* `if dataset in self._cache`
CachedNever(cache, dataset) == FALSE
Cached(cache, dataset) == dataset \in DOMAIN cache

\* self._cache[dataset] = result
Store(cache, dataset, result) ==
  [d \in DOMAIN cache \cup {dataset} |-> IF d = dataset THEN result ELSE cache[d]]

\* The checks at the head of _build_hips_list.
NotFound(config, dataset) ==
  \/ ~config.token
  \/ dataset \notin config.datasets
  \/ dataset \notin config.available

InitHips ==
  /\ db = EmptyDatabase
  /\ tx = <<>>
  /\ pc = "idle"
  /\ k = 0
  /\ schema_version = ""
  /\ schema_list = <<StemOrder[1]>>
  /\ yaml_dir = NoDirectory
  /\ prod_exists = FALSE
  /\ error = NoError
  /\ at = NoAt
  /\ trace = <<>>
  /\ prod0 = Absent
  /\ clock = 0
  /\ other = OtherIdle
  /\ fetch = NoFetch
  /\ work = NoWork
  /\ tree = NoTree
  /\ logged = <<>>
  /\ cli = NoCli
  /\ hips = [NoHips EXCEPT !.config = "full", !.revision = 1]

HipsUnchanged ==
  UNCHANGED <<db, tx, pc, k, service, yaml_dir, prod_exists, error, at, trace,
              history, clock, other, fetch, work, tree, logged, cli>>

\* get_list up to its first await: the cache lookup, then the checks of
\* _build_hips_list.
GetList(c, dataset) ==
  /\ hips.calls[c].state # "building"
  /\ hips' =
       IF Cached(hips.cache, dataset)
       THEN [hips EXCEPT !.calls[c] =
               [NoCall EXCEPT !.state = "returned", !.dataset = dataset,
                              !.text = hips.cache[dataset]]]
       ELSE IF NotFound(Configs[hips.config], dataset)
       THEN [hips EXCEPT !.calls[c] =
               [NoCall EXCEPT !.state = "raised", !.dataset = dataset,
                              !.error = "HipsDatasetNotFoundError"]]
       ELSE [hips EXCEPT !.calls[c] =
               [NoCall EXCEPT !.state = "building", !.dataset = dataset]]
  /\ HipsUnchanged

\* One `await self._get_hips_list_entry(...)` of the loop; after the last one
\* get_list joins the entries, stores the result and returns it.
GetHipsListEntry(c) ==
  LET call == hips.calls[c]
      entries == Append(call.entries,
                        Entry(call.dataset, Paths[Len(call.entries) + 1], hips.revision))
  IN /\ call.state = "building"
     /\ hips' =
          IF Len(entries) < Len(Paths)
          THEN [hips EXCEPT !.calls[c].entries = entries,
                            !.calls[c].requests = @ + 1]
          ELSE [hips EXCEPT !.calls[c].entries = entries,
                            !.calls[c].requests = @ + 1,
                            !.calls[c].state = "returned",
                            !.calls[c].text = entries,
                            !.cache = Store(@, call.dataset, entries)]
     /\ HipsUnchanged

\* The request fails: `except HTTPError` raises HipsWebError.
GetHipsListEntryFails(c) ==
  /\ hips.calls[c].state = "building"
  /\ hips' = [hips EXCEPT !.calls[c].state = "raised",
                          !.calls[c].requests = @ + 1,
                          !.calls[c].error = "HipsWebError"]
  /\ HipsUnchanged

ClearCache ==
  /\ hips.cache # NoHips.cache
  /\ hips' = [hips EXCEPT !.cache = NoHips.cache]
  /\ HipsUnchanged

\* The configuration is replaced; the surveys publish new properties files.
ConfigChanges ==
  /\ \E name \in DOMAIN Configs \ {hips.config} : hips' = [hips EXCEPT !.config = name]
  /\ HipsUnchanged
PropertiesChange ==
  /\ \E revision \in Revisions \ {hips.revision} : hips' = [hips EXCEPT !.revision = revision]
  /\ HipsUnchanged

NextHips ==
  \/ \E c \in Callers, dataset \in Datasets : GetList(c, dataset)
  \/ \E c \in Callers : GetHipsListEntry(c)
  \/ \E c \in Callers : GetHipsListEntryFails(c)
  \/ ClearCache
  \/ ConfigChanges
  \/ PropertiesChange

SpecHips == InitHips /\ [][NextHips]_vars

\* _record_version called on its own, again and again, on a staging namespace
\* that starts without a ledger, as the unit tests of the service do.
InitRecordVersion ==
  /\ db = [EmptyDatabase EXCEPT ![STAGING_SCHEMA] = EmptyNamespace]
  /\ tx = <<>>
  /\ pc = "_record_version"
  /\ k = 0
  /\ schema_version \in Versions
  /\ schema_list = <<StemOrder[1]>>
  /\ yaml_dir = NoDirectory
  /\ prod_exists = FALSE
  /\ error = NoError
  /\ at = NoAt
  /\ trace = <<"_record_version">>
  /\ prod0 = Absent
  /\ clock = 0
  /\ other = OtherIdle
  /\ fetch = NoFetch
  /\ work = NoWork
  /\ tree = NoTree
  /\ logged = <<>>
  /\ cli = NoCli
  /\ hips = NoHips
\* The next call, by a service configured for any version.
RecordVersionAgain ==
  /\ pc \in {"_create_views", "failed", "crashed"}
  /\ clock < MaxClock
  /\ pc' = "_record_version"
  /\ trace' = <<"_record_version">>
  /\ k' = 0
  /\ schema_version' \in Versions
  /\ error' = NoError
  /\ at' = NoAt
  /\ UNCHANGED <<db, tx, schema_list, yaml_dir, prod_exists, history, clock, outside, work>>
RecordVersionFault ==
  /\ pc = "_record_version"
  /\ Fault
RecordVersionCrash ==
  /\ pc = "_record_version"
  /\ Crash
NextRecordVersion ==
  \/ RecordVersion
  \/ RecordVersionAgain
  \/ RecordVersionFault
  \/ RecordVersionCrash
SpecRecordVersion == InitRecordVersion /\ [][NextRecordVersion]_vars

\* A second run of the same service on the same database, as far as the end
\* of its load.  Each of its steps is one commit, taken while this run has no
\* transaction open; it loads the documents its schema list names.
OtherInitializeSchemas ==
  /\ other.pc = "idle"
  /\ pc \in Steps
  /\ tx = <<>>
  /\ LET dropped == DropSchema(db, STAGING_SCHEMA)
         created == CreateSchema(dropped.db, STAGING_SCHEMA)
     IN IF created.ok
        THEN /\ db' = [created.db EXCEPT ![STAGING_SCHEMA].created_by = "concurrent"]
             /\ other' = [pc |-> "_initialize_database", k |-> 0]
        ELSE /\ db' = db
             /\ other' = [pc |-> "failed", k |-> 0]
  /\ UNCHANGED <<tx, pc, k, service, yaml_dir, prod_exists, error, at, trace,
                 history, clock, fetch, work, rest>>
OtherInitializeDatabase ==
  /\ other.pc = "_initialize_database"
  /\ tx = <<>>
  /\ IF ~db[STAGING_SCHEMA].exists
     THEN /\ db' = db
          /\ other' = [pc |-> "failed", k |-> 0]
     ELSE IF other.k = 0
          THEN /\ db' = [db EXCEPT ![STAGING_SCHEMA].tables = @ \cup MetadataTables]
               /\ other' = [other EXCEPT !.k = 1]
          ELSE /\ db' = [db EXCEPT ![STAGING_SCHEMA].registry = Append(@, TAP_SCHEMA_ROW)]
               /\ other' = [pc |-> "_load_schemas", k |-> 0]
  /\ UNCHANGED <<tx, pc, k, service, yaml_dir, prod_exists, error, at, trace,
                 history, clock, fetch, work, rest>>
OtherLoadSchemas ==
  /\ other.pc = "_load_schemas"
  /\ tx = <<>>
  /\ IF other.k = Len(schema_list)
     THEN /\ db' = db
          /\ other' = [pc |-> "_record_version", k |-> 0]
     ELSE IF ~db[STAGING_SCHEMA].exists \/ "schemas11" \notin db[STAGING_SCHEMA].tables
          THEN /\ db' = db
               /\ other' = [pc |-> "failed", k |-> other.k]
          ELSE /\ db' = [db EXCEPT ![STAGING_SCHEMA].registry =
                                     Append(@, schema_list[other.k + 1])]
               /\ other' = [other EXCEPT !.k = @ + 1]
  /\ UNCHANGED <<tx, pc, k, service, yaml_dir, prod_exists, error, at, trace,
                 history, clock, fetch, work, rest>>
\* The first deployment: update() has just called _execute_update on an empty
\* database.
InitConcurrent ==
  /\ db = EmptyDatabase
  /\ tx = <<>>
  /\ pc = ExecuteUpdate[1]
  /\ k = 0
  /\ schema_version \in Versions
  /\ schema_list \in SchemaLists
  /\ yaml_dir = NoDirectory
  /\ prod_exists = FALSE
  /\ error = NoError
  /\ at = NoAt
  /\ trace = <<ExecuteUpdate[1]>>
  /\ prod0 = Absent
  /\ clock = 0
  /\ other = OtherIdle
  /\ fetch = NoFetch
  /\ work = TemporaryDirectory
  /\ tree = NoTree
  /\ logged = <<>>
  /\ cli = NoCli
  /\ hips = NoHips
NextConcurrent ==
  \/ InitializeSchemas
  \/ InitializeDatabase
  \/ DownloadAndExtract
  \/ LoadSchemas
  \/ RecordVersion
  \/ CreateViews
  \/ ValidateStaging
  \/ SwapSchemas
  \/ OtherInitializeSchemas
  \/ OtherInitializeDatabase
  \/ OtherLoadSchemas
SpecConcurrent == InitConcurrent /\ [][NextConcurrent]_vars

\* ------------------------------------------------------------------ claims
Production == db[PRODUCTION_SCHEMA]
Staging == db[STAGING_SCHEMA]
Temp == db[TEMP_SCHEMA]

NonSentinelRows(rows) == Cardinality({n \in 1..Len(rows) : rows[n] # "tap_schema"})

FullyPopulated(c) ==
  /\ c.exists
  /\ {"schemas11", "tables11", "columns11", "keys11", "key_columns11"} \subseteq c.tables
  /\ {"schemas", "tables", "columns", "keys", "key_columns"}
       \subseteq {v[1] : v \in c.views}
  /\ c.ledger # {}
  /\ NonSentinelRows(c.registry) = Len(schema_list)
  /\ \E n \in 1..Len(c.registry) : c.registry[n] = "tap_schema"

\* C1: in every committed state, once the production namespace exists it
\* still exists after every step (of successful, aborted, crashed runs and of
\* every statement inside _swap_schemas), it is fully populated, and when its
\* content changes the new content is what the staging namespace held (a rename).
C1_ProductionNeverLost ==
  /\ [](Production.exists => FullyPopulated(Production))
  /\ [][Production.exists =>
          /\ db'[PRODUCTION_SCHEMA].exists
          /\ (db'[PRODUCTION_SCHEMA] # Production => db'[PRODUCTION_SCHEMA] = Staging)]_vars
C1_Witness ==
  /\ pc = "crashed"
  /\ at = [step |-> "_swap_schemas", k |-> 3]
  /\ Production.exists

\* C2: when the swap commits with production holding P and staging holding S,
\* afterwards production holds S, staging holds P and no temp namespace is left.
C2_SwapRotates ==
  [][(pc = "_swap_schemas" /\ pc' = "done" /\ Production.exists /\ Staging.exists) =>
       /\ db'[PRODUCTION_SCHEMA] = Staging
       /\ db'[STAGING_SCHEMA] = Production
       /\ ~db'[TEMP_SCHEMA].exists]_vars
C2_Witness ==
  /\ pc = "done"
  /\ prod0.exists
  /\ Staging = prod0
  /\ Production # prod0

\* C3: when the swap commits with no production namespace, afterwards production
\* holds what staging held and tap_schema_staging no longer exists.
C3_FirstDeployment ==
  [][(pc = "_swap_schemas" /\ pc' = "done" /\ ~Production.exists) =>
       /\ Staging.exists
       /\ db'[PRODUCTION_SCHEMA] = Staging
       /\ ~db'[STAGING_SCHEMA].exists]_vars
C3_Witness ==
  /\ pc = "done"
  /\ ~prod0.exists
  /\ Production.exists
  /\ ~Staging.exists

\* The exceptions each call of _execute_update can raise.
RaisedBy(step) ==
  CASE step = "download_and_extract" ->
         {"ValueError", "TAPSchemaDownloadError", "TAPSchemaExtractionError",
          "TAPSchemaDirectoryError", "OSError", "EOFError"}
    [] step = "_load_schemas" -> {"TAPSchemaNotFoundError", "FelisError"}
    [] step = "_initialize_database" -> {"FelisError", "ProgrammingError"}
    [] step = "_validate_staging" ->
         {"TAPSchemaValidationError", "ProgrammingError", "OperationalError"}
    [] OTHER -> {"ProgrammingError", "OperationalError"}

CodeOrder ==
  << "_initialize_schemas", "_initialize_database", "download_and_extract",
     "_load_schemas", "_record_version", "_create_views",
     "_validate_staging", "_swap_schemas" >>

\* C4: an error raised by any step ends the run at that step: update() raises
\* that error, the calls made are exactly those up to the failing one, and the
\* swap is not among them unless it is the step that failed.
C4_ErrorAborts ==
  /\ (pc = "failed") <=> (error # NoError)
  /\ error # NoError =>
       /\ trace # <<>>
       /\ at.step = trace[Len(trace)]
       /\ trace = SubSeq(CodeOrder, 1, Len(trace))
       /\ error.kind \in RaisedBy(at.step)
       /\ (at.step # "_swap_schemas" => Production = prod0)
C4_Witness ==
  /\ pc = "failed"
  /\ error.kind = "TAPSchemaValidationError"
  /\ "_swap_schemas" \notin {trace[n] : n \in 1..Len(trace)}
  /\ prod0.exists

\* C5: _validate_staging passes exactly when the number of registry rows other
\* than 'tap_schema' equals the number of requested schema names; otherwise it
\* raises TAPSchemaValidationError with the expected count, the found count and
\* the version.
C5_ValidateCount ==
  pc # "_validate_staging" =>
    LET found == NonSentinelRows(Staging.registry)
    IN IF found = Len(schema_list)
       THEN pc = "_swap_schemas" /\ error = NoError
       ELSE /\ pc = "failed"
            /\ error = [kind |-> "TAPSchemaValidationError", schema_name |-> "",
                        available |-> <<>>, expected |-> Len(schema_list),
                        found |-> found, schema_version |-> schema_version]
C5_Witness ==
  /\ pc = "failed"
  /\ error.kind = "TAPSchemaValidationError"
  /\ error.found > error.expected

\* C6 as stated: a successful run calls reset, download, table initialisation,
\* load, view creation, version recording, validation, swap, in this order.
C6_Original == pc = "done" => trace = ExecuteUpdateSpecOrder
\* C6 as amended: a successful run calls each step once, in the order reset,
\* table initialisation, download, load, version recording, view creation,
\* validation, swap.
C6_Amended == pc = "done" => trace = CodeOrder
C6_Witness == pc = "done" /\ Len(trace) = 8 /\ prod0.exists /\ error = NoError

\* C7: until the swap commits, the production namespace is what it was when
\* the run started: in every step before the swap and after every abort.
C7_ProductionUntouched ==
  pc \notin {"idle", "done"} => Production = prod0
C7_Witness ==
  /\ pc = "_swap_schemas"
  /\ k = 0
  /\ prod0.exists
  /\ Staging.exists /\ Staging.registry # <<>>

\* C8: after the staging reset there is a staging namespace and it is empty,
\* whatever was there before; the reset never fails because of what staging
\* held (only a database fault makes it fail).
C8_ResetIdempotent ==
  /\ (pc = "_initialize_database" /\ k = 0) => Staging = EmptyNamespace
  /\ (pc = "failed" /\ at.step = "_initialize_schemas") => error.kind = "OperationalError"
C8_Witness ==
  /\ pc = "_initialize_schemas"
  /\ k = 2
  /\ Staging.exists /\ Staging.registry # <<>>
  /\ tx # <<>> /\ tx[1][STAGING_SCHEMA] = EmptyNamespace

FirstMissing ==
  LET missing == {n \in 1..Len(schema_list) : schema_list[n] \notin DOMAIN yaml_dir}
  IN IF missing = {} THEN 0 ELSE CHOOSE n \in missing : \A m \in missing : n <= m

LoadedRows(n) == <<"tap_schema">> \o [m \in 1..n |-> yaml_dir[schema_list[m]]]

\* C9: schemas are loaded in list order and a document is looked up just before
\* it is loaded: when the k-th document is the first missing one the load stops
\* with TAPSchemaNotFoundError naming the k-th schema and listing exactly the
\* documents present, with the k-1 schemas before it loaded and none after it;
\* a run with a missing document never gets past the load.
C9_LoadOrder ==
  /\ (pc = "_load_schemas") =>
       /\ (FirstMissing # 0 => k < FirstMissing)
       /\ Staging.registry = LoadedRows(k)
  /\ (pc = "failed" /\ error.kind = "TAPSchemaNotFoundError") =>
       /\ FirstMissing # 0
       /\ at = [step |-> "_load_schemas", k |-> FirstMissing - 1]
       /\ error.schema_name = schema_list[FirstMissing]
       /\ {error.available[n] : n \in 1..Len(error.available)} = DOMAIN yaml_dir
       /\ Len(error.available) = Cardinality(DOMAIN yaml_dir)
       /\ Staging.registry = LoadedRows(FirstMissing - 1)
  /\ (error = NoError /\ pc \in {"_record_version", "_create_views", "_validate_staging",
                                   "_swap_schemas", "done"}) => FirstMissing = 0
C9_Witness ==
  /\ pc = "failed"
  /\ error.kind = "TAPSchemaNotFoundError"
  /\ at.k = 1
  /\ error.available # <<>>

\* C10 as stated: a crash after the first rename of the three-rename swap
\* leaves a committed state without a production namespace.
C10_Original ==
  (pc = "crashed" /\ at = [step |-> "_swap_schemas", k |-> 2] /\ prod0.exists)
    => ~Production.exists
\* C10 as amended: the three renames run in one transaction; a crash after the
\* first rename rolls it back, so the committed state still has the production
\* namespace with its previous content and no temp namespace.
C10_Amended ==
  (pc = "crashed" /\ at = [step |-> "_swap_schemas", k |-> 2] /\ prod0.exists)
    => (Production = prod0 /\ ~Temp.exists /\ Staging.exists)
C10_Witness ==
  /\ pc = "crashed"
  /\ at = [step |-> "_swap_schemas", k |-> 2]
  /\ prod0.exists
  /\ Production.exists

\* C11: the temp namespace exists only inside the transaction of a swap: no
\* committed state, before, between or after runs and after a swap that failed
\* or was interrupted, holds tap_schema_temp, and no other step creates it.
C11_TempOnlyInsideSwap ==
  /\ ~Temp.exists
  /\ (tx # <<>> /\ tx[1][TEMP_SCHEMA].exists) => pc = "_swap_schemas"
C11_Witness ==
  /\ pc = "failed"
  /\ at = [step |-> "_swap_schemas", k |-> 3]
  /\ prod0.exists
  /\ ~Temp.exists

\* C12: nothing keeps a second run out: whenever this run has loaded staging
\* and not yet promoted it, the reset of a second run can commit, and it
\* replaces the loaded staging namespace by an empty one of its own.
C12_ConcurrentResetDropsStaging ==
  (/\ pc \in {"_record_version", "_create_views", "_validate_staging", "_swap_schemas"}
   /\ tx = <<>>
   /\ other.pc = "idle"
   /\ Staging.created_by = "update")
    => ENABLED (/\ OtherInitializeSchemas
                /\ db'[STAGING_SCHEMA].registry = <<>>
                /\ db'[STAGING_SCHEMA].tables = {}
                /\ db'[STAGING_SCHEMA].created_by = "concurrent")
\* This run validated and promoted a namespace the second run created and loaded.
C12_Witness ==
  /\ pc = "done"
  /\ error = NoError
  /\ Production.created_by = "concurrent"
  /\ other.pc = "_record_version"

\* A run's inputs are valid when every requested schema has a document that
\* declares it.
ValidInputs ==
  \A n \in 1..Len(schema_list) :
    /\ schema_list[n] \in DOMAIN yaml_dir
    /\ yaml_dir[schema_list[n]] = schema_list[n]

\* C13: what an earlier run left behind, wherever it stopped, never blocks a
\* run: no step fails on the state of the database, a load or validation error
\* means the run's own inputs are invalid, and a run that completes leaves in
\* production exactly the rows and the version it loaded itself.
C13_RecoveryByRerun ==
  /\ error.kind # "ProgrammingError"
  /\ (pc = "failed" /\ error.kind \in {"TAPSchemaNotFoundError", "TAPSchemaValidationError"})
       => ~ValidInputs
  /\ pc = "done" =>
       /\ ValidInputs
       /\ Production.registry = LoadedRows(Len(schema_list))
       /\ Production.ledger = {[version |-> schema_version, loaded_at |-> clock]}
C13_Witness ==
  /\ pc = "done"
  /\ ~prod0.exists
  /\ \E row \in Production.ledger : row.loaded_at >= 2

TransactionalSteps ==
  {"_initialize_schemas", "_record_version", "_create_views", "_swap_schemas"}

\* C14: reset, version recording, view creation and swap are each all or
\* nothing: while the step runs no committed state changes, and when it fails
\* or the process dies the committed state is the one the step started from,
\* with everything earlier steps committed still in place.
C14_AllOrNothing ==
  [][(pc \in TransactionalSteps) =>
       /\ (pc' = pc => db' = db)
       /\ (pc' \in {"failed", "crashed"} => db' = db)]_vars
C14_Witness ==
  /\ pc = "failed"
  /\ at = [step |-> "_create_views", k |-> 2]
  /\ Staging.views = {}
  /\ Staging.ledger # {}
  /\ Len(Staging.registry) >= 2

\* C15: each call of _record_version leaves exactly one row for its version,
\* with a loaded_at strictly later than the row it replaces, and leaves the
\* rows of the other versions as they were.
C15_UpsertByVersion ==
  [][(pc = "_record_version" /\ pc' = "_create_views") =>
       LET old == Staging.ledger
           new == db'[STAGING_SCHEMA].ledger
       IN /\ Cardinality({row \in new : row.version = schema_version}) = 1
          /\ {row \in new : row.version # schema_version}
               = {row \in old : row.version # schema_version}
          /\ \A o \in old, n \in new :
               (o.version = schema_version /\ n.version = schema_version)
                 => n.loaded_at > o.loaded_at]_vars
C15_Witness ==
  /\ pc = "_create_views"
  /\ Cardinality(Staging.ledger) = 2
  /\ \E row \in Staging.ledger : row.version = schema_version /\ row.loaded_at = 3

\* C16 as stated: after _record_version on a staging namespace without a
\* ledger, the table tap_schema_staging.version exists and has a row for the
\* version.
C16_Original ==
  pc = "_create_views" =>
    /\ "version" \in Staging.tables
    /\ \E row \in Staging.ledger : row.version = schema_version

\* C17: the ledger is in staging, with a row for the run's version, when the
\* swap starts, and in production after every run that completes.
C17_LedgerTravels ==
  /\ (pc = "_swap_schemas" /\ k = 0) =>
       /\ "version11" \in Staging.tables
       /\ \E row \in Staging.ledger : row.version = schema_version
  /\ pc = "done" =>
       /\ "version11" \in Production.tables
       /\ \E row \in Production.ledger : row.version = schema_version
C17_Witness ==
  /\ pc = "done"
  /\ prod0.exists
  /\ prod0.ledger # Production.ledger
  /\ \E row \in Production.ledger : row.version = schema_version

FiveViews ==
  { <<"schemas", "schemas11">>, <<"tables", "tables11">>, <<"columns", "columns11">>,
    <<"keys", "keys11">>, <<"key_columns", "key_columns11">> }
ViewsMirrorTables(c) ==
  /\ {v[1] : v \in c.views} = {p[1] : p \in FiveViews}
  /\ \A p \in FiveViews :
       /\ p[2] \in c.tables
       /\ Select(c, p[1]) = Select(c, p[2])

\* C18: once _create_views has committed, staging has exactly the five
\* unpostfixed views and each returns the rows of its postfixed table; after
\* the swap the same holds of production.
C18_ViewsAliasTables ==
  /\ (pc \in {"_validate_staging", "_swap_schemas"} /\ tx = <<>>)
       => ViewsMirrorTables(Staging)
  /\ pc = "done" => ViewsMirrorTables(Production)
C18_Witness ==
  /\ pc = "done"
  /\ prod0.exists
  /\ Len(Select(Production, "keys")) >= 2
  /\ Select(Production, "keys") # Select(Production, "key_columns")

\* C19: download_and_extract fetches a gs URL from object storage and an http
\* or https URL over HTTP, once; for any other scheme it makes no fetch and
\* raises an error that names the scheme.
C19_SchemeDispatch ==
  fetch.state \in {"returned", "raised"} =>
    /\ fetch.scheme = "gs" => fetch.requests = <<"gcs">>
    /\ fetch.scheme \in {"http", "https"} => fetch.requests = <<"http">>
    /\ fetch.scheme \notin {"gs", "http", "https"} =>
         /\ fetch.requests = <<>>
         /\ fetch.state = "raised"
         /\ fetch.error.kind = "ValueError"
         /\ fetch.error.scheme = fetch.scheme
C19_Witness ==
  /\ fetch.state = "raised"
  /\ fetch.scheme = "ftp"
  /\ fetch.error.kind = "ValueError"
  /\ fetch.requests = <<>>

\* C20 as stated: every failure while the archive is fetched, from object
\* storage or over HTTP, reaches the caller as TAPSchemaDownloadError with the
\* resolved URL and the version, after one attempt.
C20_Original ==
  (fetch.state \in {"returned", "raised"} /\ fetch.failure # "none") =>
    /\ fetch.state = "raised"
    /\ fetch.error.kind = "TAPSchemaDownloadError"
    /\ fetch.error.url = <<fetch.scheme, "://host/", schema_version, ".tar.gz">>
    /\ fetch.error.schema_version = schema_version
    /\ Len(fetch.requests) = 1

\* C21 as stated: every unreadable, corrupt or truncated archive ends
\* download_and_extract with TAPSchemaExtractionError carrying the archive
\* path; nothing else leaves the extraction step.
C21_Original ==
  (/\ fetch.state \in {"returned", "raised"}
   /\ fetch.scheme \in {"gs", "http", "https"}
   /\ fetch.failure = "none"
   /\ fetch.archive # "ok") =>
    /\ fetch.state = "raised"
    /\ fetch.error.kind = "TAPSchemaExtractionError"
    /\ fetch.error.archive_path = <<"work_dir", "schemas", schema_version, ".tar.gz">>

\* C22 as stated: after extraction download_and_extract returns only when the
\* expected directory exists and holds a document, and each of the three
\* failing layouts raises TAPSchemaDirectoryError carrying the checked path.
C22_Original ==
  (/\ fetch.state \in {"returned", "raised"}
   /\ fetch.scheme \in {"gs", "http", "https"}
   /\ fetch.failure = "none"
   /\ fetch.archive = "ok") =>
    /\ fetch.state = "returned" <=> fetch.layout = "ok"
    /\ fetch.layout # "ok" =>
         /\ fetch.error.kind = "TAPSchemaDirectoryError"
         /\ fetch.error.schema_dir # <<>>

\* C28: after every run that completes the production ledger has exactly one
\* row, for the run's version; after a swap over an existing production the
\* ledger left in staging is the previous production's, with exactly one row.
C28_LedgerSingleRow ==
  pc = "done" =>
    /\ Cardinality(Production.ledger) = 1
    /\ \A row \in Production.ledger : row.version = schema_version
    /\ prod0.exists =>
         /\ Staging.ledger = prod0.ledger
         /\ Cardinality(Staging.ledger) = 1
C28_Witness ==
  /\ pc = "done"
  /\ prod0.exists
  /\ Cardinality(Staging.ledger) = 1
  /\ \E row \in Staging.ledger : row.version # schema_version
  /\ \E row \in Production.ledger : row.loaded_at = 2

\* C29: a run started without work_dir has a temporary directory while it
\* runs and none once update has returned or raised, at whichever step; a run
\* started with work_dir creates no other directory and leaves the given one.
C29_WorkDirLifetime ==
  /\ work.work_dir = "tmpdir" =>
       /\ work.given = "none"
       /\ pc \notin {"done", "failed", "crashed"} => work.tmpdir = "exists"
       /\ pc \in {"done", "failed"} => work.tmpdir = "removed"
  /\ work.work_dir = "given" =>
       /\ work.tmpdir = "none"
       /\ work.given = "exists"
C29_Witness ==
  /\ pc = "failed"
  /\ at.step = "_swap_schemas"
  /\ work.work_dir = "tmpdir"
  /\ work.tmpdir = "removed"

\* The requested names that are not among the names found in the registry.
MissingNames == Range(schema_list) \ Range(Staging.registry)

\* C27 as stated: when the count check of _validate_staging passes and some
\* requested name is not among the registry's names, the validator logs the
\* set of missing names as a warning and the run goes on.
C27_Original ==
  (pc = "_swap_schemas" /\ MissingNames # {}) =>
    \E n \in DOMAIN logged :
      /\ logged[n].level = "warning"
      /\ logged[n].missing = MissingNames

\* C23 as stated: a run started by update-tap-schema promotes staging only if
\* the registry holds, not counting 'tap_schema', exactly as many rows as the
\* schema list has names; otherwise it does not swap and exits non-zero.
C23_Original ==
  /\ pc = "_swap_schemas" => NonSentinelRows(Staging.registry) = Len(schema_list)
  /\ (cli.state = "exited" /\ cli.exit_code = 0)
       => NonSentinelRows(Production.registry) = Len(schema_list)

\* C24: the command exits with 0 exactly when the run completed the swap;
\* every failure of the run ends it with a non-zero code and a message made of
\* "Update failed: " and the error; the engine is disposed either way.
C24_ExitCode ==
  (cli.state = "exited" /\ pc # "idle") =>
    /\ cli.exit_code = 0 <=> pc = "done"
    /\ pc = "done" =>
         /\ trace[Len(trace)] = "_swap_schemas"
         /\ Production.exists
         /\ error.kind = "none"
    /\ pc = "failed" =>
         /\ cli.exit_code = 1
         /\ error.kind # "none"
         /\ cli.message = [prefix |-> "Update failed: ", text |-> "", error |-> error]
    /\ cli.engine = "disposed"
C24_Witness ==
  /\ cli.state = "exited"
  /\ cli.exit_code = 1
  /\ cli.engine = "disposed"
  /\ pc = "failed"
  /\ at.step = "_swap_schemas"

\* C25: an unknown application, or no version at either level, ends the command
\* with an error before an engine exists and before anything is run against
\* the database or fetched; otherwise the server's version is used when it has
\* one, the global one when it has not.
C25_ConfigurationFirst ==
  /\ (cli.state = "exited" /\ (cli.app # "tap" \/ (cli.server_version = "" /\ cli.global_version = "")))
       => /\ cli.exit_code = 1
          /\ cli.message.text \in {"Unknown TAP server", "No schema version configured"}
          /\ cli.engine = "none"
          /\ pc = "idle"
          /\ trace = <<>>
          /\ db = [n \in Namespaces |-> Absent]
          /\ fetch.state = "none"
  /\ cli.engine # "none"
       => schema_version =
            IF cli.server_version # "" THEN cli.server_version ELSE cli.global_version
C25_Witness ==
  /\ cli.state = "exited"
  /\ cli.app = "tap"
  /\ cli.server_version = ""
  /\ cli.global_version = ""
  /\ cli.engine = "none"
  /\ cli.exit_code = 1

\* C26 as stated: for calls of download_and_extract that share one work_dir,
\* the directory a call returns holds only documents of the archive that call
\* fetched, none left by an earlier call.
C26_Original ==
  tree.calls > 0 =>
    /\ \A f \in tree.returned : f.call = tree.calls
    /\ {f.stem : f \in tree.returned} = tree.documents

\* A complete HiPS list of a dataset: one entry for each of its paths, in order.
CompleteList(text, dataset) ==
  /\ Len(text) = 2
  /\ text[1].hips_service_url = <<dataset, "images/color_gri">>
  /\ text[2].hips_service_url = <<dataset, "images/band_u">>

\* C30 as stated: a call that finds its dataset cached returns the cached text
\* without a request, and once a call for a dataset has succeeded the text
\* returned for it stays identical until clear_cache is called.
C30_Original ==
  [][\A d \in DOMAIN hips.cache :
       /\ \A c \in {1, 2} :
            (hips'.calls[c] # hips.calls[c] /\ hips.calls[c].state # "building"
               /\ hips'.calls[c].dataset = d)
              => hips'.calls[c].text = hips.cache[d]
       /\ \/ DOMAIN hips'.cache = {}
          \/ (d \in DOMAIN hips'.cache /\ hips'.cache[d] = hips.cache[d])]_vars

\* C30 as amended: a call that finds its dataset cached returns the cached
\* text, issues no request and leaves the cache as it is, whatever the
\* configuration is now; the cache changes only by clear_cache or by the store
\* of a call that had missed the cache and has fetched every path, so calls
\* that overlap may replace an entry; a call that raises leaves the cache
\* unchanged, and every stored or returned text is a complete list.
C30_CacheHits ==
  /\ [](\A d \in DOMAIN hips.cache : CompleteList(hips.cache[d], d))
  /\ [](\A c \in {1, 2} :
          hips.calls[c].state = "returned"
            => CompleteList(hips.calls[c].text, hips.calls[c].dataset))
  /\ [][\A c \in {1, 2} :
          /\ (/\ hips'.calls[c] # hips.calls[c]
              /\ hips.calls[c].state # "building"
              /\ hips'.calls[c].dataset \in DOMAIN hips.cache)
               => /\ hips'.calls[c].state = "returned"
                  /\ hips'.calls[c].text = hips.cache[hips'.calls[c].dataset]
                  /\ hips'.calls[c].requests = 0
                  /\ hips'.cache = hips.cache
          /\ (hips'.calls[c] # hips.calls[c] /\ hips'.calls[c].state = "raised")
               => hips'.cache = hips.cache]_vars
  /\ [][hips'.cache # hips.cache =>
          \/ DOMAIN hips'.cache = {}
          \/ \E c \in {1, 2} :
               /\ hips.calls[c].state = "building"
               /\ hips'.calls[c].state = "returned"
               /\ hips'.calls[c].requests = 2
               /\ hips'.cache =
                    [d \in DOMAIN hips.cache \cup {hips.calls[c].dataset} |->
                       IF d = hips.calls[c].dataset THEN hips'.calls[c].text
                       ELSE hips.cache[d]]]_vars
C30_Witness ==
  /\ DOMAIN hips.cache = {"dp02"}
  /\ hips.config = "anonymous"
  /\ hips.calls[1].state = "returned"
  /\ hips.calls[1].requests = 0
  /\ hips.calls[1].text = hips.cache["dp02"]
  /\ hips.calls[2].state = "raised"
  /\ hips.calls[2].error = "HipsWebError"

====
